---- MODULE Spec2Model ----
(***************************************************************************)
(* Model of image_builder/build_image.py: the Apptainer image builder.     *)
(*                                                                         *)
(* The program is one sequential pipeline of HTTP calls.  Every action of  *)
(* the model is one HTTP request together with the whole handling of its   *)
(* response, up to the point where the next request is issued.  The remote *)
(* API is the environment: each action draws the response (status code and *)
(* body) from a small set.                                                 *)
(*                                                                         *)
(* log   history of the requests issued so far, in order                   *)
(* last  the response received most recently                               *)
(* exc   the exception that ended the run ("none" while it runs)           *)
(* script_pos  how far the job statuses read so far follow Script          *)
(* mock  the scripted responses of a mocked run, and how many were         *)
(*       consumed (off in a run against the API)                           *)
(***************************************************************************)
EXTENDS Integers, Sequences, FiniteSets, TLC

VARIABLES pc, jobspec, file_ids, job_id, job_status, cluster_status, files,
          sif_file_id, folder_id, payload, printed, exc, last, log, polls,
          retries, script_pos, folders, mock

vars == <<pc, jobspec, file_ids, job_id, job_status, cluster_status, files,
          sif_file_id, folder_id, payload, printed, exc, last, log, polls,
          retries, script_pos, folders, mock>>

(***************************************************************************)
(* Bounds of the model.                                                    *)
(***************************************************************************)
\* job-status polls of _monitor_job that the model follows
MaxPolls == 3
\* 404 answers of the cluster-status endpoint that the model follows
MaxRetries == 2
\* length of the .sif search result list
MaxResults == 2
\* length of the folder listing
MaxFolders == 2

(***************************************************************************)
(* Program constants (build_image.py lines 14-19).                         *)
(***************************************************************************)
ANALYSIS_CODE == "user_included_apptainer_container"
ANALYSIS_VERSION == "1.0.1"
CORETYPE == "emerald"
CORE_COUNT == 2
WALLTIME == 2
images_folder_name == "apptainer_images"

(***************************************************************************)
(* The environment: what the remote API may answer.                        *)
(***************************************************************************)
None == "none"
\* the body of a response the code does not read
NoBody == "nobody"

StatusCodes == {200, 304, 400, 404, 500}
\* the folder-creation endpoint also answers 201 Created
CreateFolderCodes == StatusCodes \cup {201}
Is2xx(status) == status >= 200 /\ status < 300

FileIds == {"f1", "f2"}
JobIds == {"j1"}
JobStatuses == {"Submitted", "Running", "Completed", "Failed"}
ClusterStatuses == {"Started"}
SifIds == {"s1", "s2"}
FolderIds == {"d1", "d2"}
\* the folders a listing may show: two that bear the images folder's name,
\* and another one
ListedFolders == {[name |-> images_folder_name, id |-> "d1"],
                  [name |-> images_folder_name, id |-> "d2"],
                  [name |-> "other", id |-> "d3"]}
LogFileIds == {"o1"}
LogBodies == {<<>>, <<"build ok\n">>, <<"step 1\n", "step 2\n">>}
Projects == {None, "p1"}

SeqsUpTo(S, n) == UNION {[1..k -> S] : k \in 0..n}

\* a status that is neither 2xx nor an error; of these the API is taken to
\* answer 304 Not Modified, which carries no body
Is3xx(status) == status >= 300 /\ status < 400

\* Responses whose body carries one of `values`.  hasBody tells whether the
\* value the code reads can be extracted from the body.  A 2xx response
\* carries a body of the documented shape, a 304 carries none, and an error
\* response may carry anything.
Responses(codes, values) ==
    {r \in [status : codes, hasBody : BOOLEAN, body : values] :
        /\ Is2xx(r.status) => r.hasBody
        /\ Is3xx(r.status) => ~r.hasBody
        /\ ~r.hasBody => r.body = CHOOSE v \in values : TRUE}

\* Responses of a search endpoint whose first result the code reads: a 2xx
\* response may list no result at all.
SearchResponses(values) ==
    {r \in [status : StatusCodes, hasBody : BOOLEAN, body : values] :
        /\ Is3xx(r.status) => ~r.hasBody
        /\ ~r.hasBody => r.body = CHOOSE v \in values : TRUE}

\* Responses of an endpoint whose body the code never reads.
BareResponses == [status : StatusCodes, hasBody : {FALSE}, body : {NoBody}]

(***************************************************************************)
(* Helpers.                                                                *)
(***************************************************************************)
\* (variant: only server errors raise)
RaiseForServerError(status) == status >= 500 /\ status < 600

\* requests.Response.raise_for_status: raises HTTPError for 4xx and 5xx
RaiseForStatus(status) == status >= 400 /\ status < 600

\* os.path.basename on a path given as its components
Basename(path) == path[Len(path)]

\* (variant: the definition file is uploaded first)
UploadPathsSwapped(js) == <<js.deffile_path, js.buildscript_path>>

\* (variant: the definition file is uploaded once more)
UploadPathsRepeated(js) == <<js.buildscript_path, js.deffile_path, js.deffile_path>>

\* line 250: the upload order
UploadPaths(js) == <<js.buildscript_path, js.deffile_path>>

\* (variant: the input files are listed last to first)
InputFilesReversed(ids) == [i \in 1..Len(ids) |-> [id |-> ids[Len(ids) + 1 - i]]]

\* line 102: the input file list
InputFiles(ids) == [i \in 1..Len(ids) |-> [id |-> ids[i]]]

\* (variant: the job description carries the project id)
JobspecJsonWithProject(ids, js) ==
    [name |-> js.name,
     description |-> "Apptainer Image Build Job",
     projectId |-> js.project,
     jobanalyses |-> <<
        [analysis |-> [code |-> js.analysis_code, version |-> js.analysis_version],
         command |-> <<"sh", Basename(js.buildscript_path)>>,
         hardware |-> [coresPerSlot |-> js.core_count, slots |-> 1,
                       walltime |-> js.walltime, type |-> "compute",
                       coreType |-> js.coretype],
         inputFiles |-> InputFiles(ids)] >>]

\* lines 85-105: the job description
JobspecJson(ids, js) ==
    [name |-> js.name,
     description |-> "Apptainer Image Build Job",
     jobanalyses |-> <<
        [analysis |-> [code |-> js.analysis_code, version |-> js.analysis_version],
         command |-> <<"sh", Basename(js.buildscript_path)>>,
         hardware |-> [coresPerSlot |-> js.core_count, slots |-> 1,
                       walltime |-> js.walltime, type |-> "compute",
                       coreType |-> js.coretype],
         inputFiles |-> InputFiles(ids)] >>]

\* (variant: the 404 is not waited out)
ClusterStatusNoRetry(status) == FALSE

\* line 149: the nested loop sleeps and asks again
ClusterStatusRetry(status) == status = 404

\* (variant: any terminal status ends the loop)
MonitorDoneOnTerminal(status) == status \in {"Completed", "Failed"}

\* (variant: the status is compared with a misspelt name)
MonitorDoneMisspelt(status) == status = "Complete"

\* line 160: the only exit of the monitor loop
MonitorDone(status) == status = "Completed"

\* (variant: only an empty result is refused)
AtLeastOneSif(fs) == Len(fs) >= 1

\* line 176: exactly one .sif file
SingleSif(fs) == Len(fs) = 1

\* (variant: the first folder listed is taken, whatever its name)
ImagesFolderUnfiltered(listing) == listing

\* line 188: the folders named after the images folder, in listing order
ImagesFolder(listing) == SelectSeq(listing, LAMBDA f : f.name = images_folder_name)

\* lines 201-202: the status check of the folder-creation response
CreateFolderRaises(status) == status \notin {201, 400} /\ RaiseForStatus(status)

\* The scripted sequence of job statuses of the monitor-loop test, and the
\* position in it that the statuses read so far have reached (OffScript once
\* a poll read something else, or failed).
Script == <<"Submitted", "Running", "Completed">>
OffScript == Len(Script) + 1
Follow(pos, status) ==
    IF pos # OffScript /\ pos < Len(Script) /\ status = Script[pos + 1]
    THEN pos + 1 ELSE OffScript

\* (variant: the answer of the association request is not checked)
AssociationUnchecked(status) == FALSE

\* line 216: the status check of the association response
AssociationRaises(status) == RaiseForStatus(status)

\* (variant: the answer of the upload is not checked)
UploadUnchecked(status) == FALSE

\* line 75: the status check of the upload response
UploadRaises(status) == RaiseForStatus(status)

\* (variant: the answer of the type change is not checked)
TypeChangeUnchecked(status) == FALSE

\* line 227: the status check of the type-change response
TypeChangeRaises(status) == RaiseForStatus(status)

Entry(kind, target, ids, ret) == [kind |-> kind, target |-> target, ids |-> ids, ret |-> ret]

Received(kind, r) == [kind |-> kind, status |-> r.status, hasBody |-> r.hasBody]

\* (variant: the lines are not printed)
PrintNothing(out, lines) == out

\* lines 244-245: print(line, end='') for each line
PrintLines(out, lines) == out \o lines

(***************************************************************************)
(* Mocked runs: the responses come from a script, each request consuming   *)
(* the next one whatever it is.  A mocked response is named by a label;    *)
(* it has a status and a body of some shape, and a call can read from it   *)
(* only the shape it expects.                                              *)
(***************************************************************************)
Unmocked == [on |-> FALSE, script |-> <<>>, pos |-> 0]

MockStatus(label) == IF label = "folder_created" THEN 201 ELSE 200

\* {"id": ...}, {"results": [{"status": ...}]}, {"results": [{"id": ...}]},
\* a list of folders, {"lines": [...]}, or nothing
MockShape(label) ==
    CASE label \in {"uploaded_1", "uploaded_2", "job_created", "folder_created"} -> "id"
      [] label \in {"status_running", "status_completed", "cluster_started"} -> "statuses"
      [] label \in {"sif_match", "log_file_match"} -> "results"
      [] label = "no_folders" -> "folders"
      [] label = "log_build_ok" -> "lines"
      [] OTHER -> "empty"

\* the shape that the call of each kind reads
ShapeRead(kind) ==
    CASE kind \in {"upload", "create_job", "create_folder"} -> "id"
      [] kind \in {"job_status", "cluster_status"} -> "statuses"
      [] kind \in {"sif_search", "log_search"} -> "results"
      [] kind = "list_folders" -> "folders"
      [] kind = "log_lines" -> "lines"
      [] OTHER -> "empty"

\* what the call of `kind` reads in the mocked response `label`
MockBody(kind, label) ==
    CASE label = "uploaded_1" -> "f1"
      [] label = "uploaded_2" -> "f2"
      [] label = "job_created" -> "j1"
      [] label = "folder_created" -> "d1"
      [] label = "status_running" -> "Running"
      [] label = "status_completed" -> "Completed"
      [] label = "cluster_started" -> "Started"
      [] label = "sif_match" -> IF kind = "sif_search" THEN <<"s1">> ELSE "s1"
      [] label = "log_file_match" -> IF kind = "sif_search" THEN <<"o1">> ELSE "o1"
      [] label = "no_folders" -> <<>>
      [] label = "log_build_ok" -> <<"build ok\n">>
      [] OTHER -> NoBody

MockResponse(kind, label) ==
    LET fits == ShapeRead(kind) # "empty" /\ MockShape(label) = ShapeRead(kind)
    IN  [status |-> MockStatus(label),
         hasBody |-> fits,
         body |-> IF fits THEN MockBody(kind, label) ELSE NoBody]

\* The responses the call of `kind` may get: any of `free` from the API, the
\* next scripted one in a mocked run.
Answers(kind, free) ==
    IF ~mock.on THEN free
    ELSE IF mock.pos < Len(mock.script)
         THEN {MockResponse(kind, mock.script[mock.pos + 1])}
         ELSE {}

Consumed == IF mock.on THEN [mock EXCEPT !.pos = @ + 1] ELSE mock

\* The mocked run of the end-to-end test as the specification words it.
ClaimedScenario ==
    <<"uploaded_1", "uploaded_2", "job_created", "submitted", "status_completed",
      "sif_match", "folder_created", "associated", "retagged", "log_build_ok">>

\* Mocked runs with or without a first poll that reads "Running", the
\* cluster-status response, the folder listing and the log-file search.
Scenario(running, cluster, listing, logfile) ==
    <<"uploaded_1", "uploaded_2", "job_created", "submitted">>
    \o (IF running THEN <<"status_running", "cluster_started">> ELSE <<>>)
    \o <<"status_completed">>
    \o (IF cluster THEN <<"cluster_started">> ELSE <<>>)
    \o <<"sif_match">>
    \o (IF listing THEN <<"no_folders">> ELSE <<>>)
    \o <<"folder_created", "associated", "retagged">>
    \o (IF logfile THEN <<"log_file_match">> ELSE <<>>)
    \o <<"log_build_ok">>

CompleteScenario == Scenario(FALSE, TRUE, TRUE, TRUE)

MockScripts == {Scenario(r, c, f, l) : r \in BOOLEAN, c \in BOOLEAN,
                                       f \in BOOLEAN, l \in BOOLEAN}

(***************************************************************************)
(* Initial state: __main__ has built the JobSpec, _build_image starts.     *)
(***************************************************************************)
Start ==
    /\ pc = "upload"
    /\ jobspec \in [name : {"img"},
                    deffile_path : {<<"defs", "image.def">>},
                    buildscript_path : {<<"scripts", "build.sh">>},
                    project : Projects,
                    analysis_code : {ANALYSIS_CODE},
                    analysis_version : {ANALYSIS_VERSION},
                    coretype : {CORETYPE},
                    core_count : {CORE_COUNT},
                    walltime : {WALLTIME}]
    /\ file_ids = <<>>
    /\ job_id = None
    /\ job_status = None
    /\ cluster_status = None
    /\ files = <<>>
    /\ folders = <<>>
    /\ sif_file_id = None
    /\ folder_id = None
    /\ payload = None
    /\ printed = <<>>
    /\ exc = None
    /\ last = [kind |-> None, status |-> 0, hasBody |-> FALSE]
    /\ log = <<>>
    /\ polls = 0
    /\ retries = 0
    /\ script_pos = 0

\* a run against the API
Init == Start /\ mock = Unmocked

\* a mocked run
InitMock == Start /\ mock \in [on : {TRUE}, script : MockScripts, pos : {0}]

\* An uncaught exception ends the run.
Abort(e) == pc' = "aborted" /\ exc' = e

(***************************************************************************)
(* _upload_file, called from the loop of _build_image (lines 250-252).     *)
(***************************************************************************)
UploadFile ==
    /\ pc = "upload"
    /\ \E r \in Answers("upload", Responses(StatusCodes, FileIds)) :
        LET path == UploadPaths(jobspec)[Len(file_ids) + 1]
            ok == ~UploadRaises(r.status) /\ r.hasBody
        IN  /\ last' = Received("upload", r)
            /\ log' = Append(log, Entry("upload", None, <<Basename(path)>>,
                                        IF ok THEN r.body ELSE "raised"))
            /\ IF UploadRaises(r.status)
               THEN Abort("HTTPError") /\ UNCHANGED file_ids
               ELSE IF ~r.hasBody
               THEN Abort("BodyError") /\ UNCHANGED file_ids
               ELSE /\ file_ids' = Append(file_ids, r.body)
                    /\ pc' = IF Len(file_ids) + 1 = Len(UploadPaths(jobspec))
                             THEN "create_job" ELSE "upload"
                    /\ UNCHANGED exc
    /\ mock' = Consumed
    /\ UNCHANGED <<jobspec, folders, job_id, job_status, cluster_status, files, sif_file_id,
                   folder_id, payload, printed, polls, retries, script_pos>>

(***************************************************************************)
(* _create_build_job (lines 82-118).                                       *)
(***************************************************************************)
CreateBuildJob ==
    /\ pc = "create_job"
    /\ \E r \in Answers("create_job", Responses(StatusCodes, JobIds)) :
        LET ok == ~RaiseForStatus(r.status) /\ r.hasBody
        IN  /\ payload' = JobspecJson(file_ids, jobspec)
            /\ last' = Received("create_job", r)
            /\ log' = Append(log, Entry("create_job", None,
                                        [i \in 1..Len(payload'.jobanalyses[1].inputFiles) |->
                                            payload'.jobanalyses[1].inputFiles[i].id],
                                        IF ok THEN r.body ELSE "raised"))
            /\ IF RaiseForStatus(r.status)
               THEN Abort("HTTPError") /\ UNCHANGED job_id
               ELSE IF ~r.hasBody
               THEN Abort("BodyError") /\ UNCHANGED job_id
               ELSE job_id' = r.body /\ pc' = "submit" /\ UNCHANGED exc
    /\ mock' = Consumed
    /\ UNCHANGED <<jobspec, folders, file_ids, job_status, cluster_status, files, sif_file_id,
                   folder_id, printed, polls, retries, script_pos>>

(***************************************************************************)
(* _submit_build_job (lines 121-131).                                      *)
(***************************************************************************)
SubmitBuildJob ==
    /\ pc = "submit"
    /\ \E r \in Answers("submit", BareResponses) :
        /\ last' = Received("submit", r)
        /\ log' = Append(log, Entry("submit", job_id, <<>>,
                                    IF RaiseForStatus(r.status) THEN "raised" ELSE "ok"))
        /\ IF RaiseForStatus(r.status)
           THEN Abort("HTTPError")
           ELSE pc' = "job_status" /\ UNCHANGED exc
    /\ mock' = Consumed
    /\ UNCHANGED <<jobspec, folders, file_ids, job_id, job_status, cluster_status, files,
                   sif_file_id, folder_id, payload, printed, polls, retries, script_pos>>

(***************************************************************************)
(* _monitor_job (lines 134-164): the job-status poll of one iteration of   *)
(* the outer loop (lines 136-141).                                         *)
(***************************************************************************)
MonitorJobStatus ==
    /\ pc = "job_status"
    /\ polls < MaxPolls
    /\ \E r \in Answers("job_status", Responses(StatusCodes, JobStatuses)) :
        LET ok == ~RaiseForStatus(r.status) /\ r.hasBody
        IN  /\ last' = Received("job_status", r)
            /\ log' = Append(log, Entry("job_status", job_id, <<>>,
                                        IF ok THEN "ok" ELSE "raised"))
            /\ script_pos' = IF ok THEN Follow(script_pos, r.body) ELSE OffScript
            /\ IF RaiseForStatus(r.status)
               THEN Abort("HTTPError") /\ UNCHANGED job_status
               ELSE IF ~r.hasBody
               THEN Abort("BodyError") /\ UNCHANGED job_status
               ELSE job_status' = r.body /\ pc' = "cluster_status" /\ UNCHANGED exc
    /\ polls' = polls + 1
    /\ mock' = Consumed
    /\ UNCHANGED <<jobspec, folders, file_ids, job_id, cluster_status, files, sif_file_id,
                   folder_id, payload, printed, retries>>

(***************************************************************************)
(* _monitor_job: one cluster-status request of the nested loop (lines      *)
(* 144-152) and, when the nested loop is left, the rest of the iteration   *)
(* of the outer loop (lines 154-164).                                      *)
(***************************************************************************)
MonitorClusterStatus ==
    /\ pc = "cluster_status"
    /\ \E r \in Answers("cluster_status", Responses(StatusCodes, ClusterStatuses)) :
        LET ok == ~RaiseForStatus(r.status) /\ r.hasBody
        IN  /\ ClusterStatusRetry(r.status) => retries < MaxRetries
            /\ last' = Received("cluster_status", r)
            /\ log' = Append(log, Entry("cluster_status", job_id, <<>>,
                                        IF ClusterStatusRetry(r.status) THEN "retry"
                                        ELSE IF ok THEN "ok" ELSE "raised"))
            /\ IF ClusterStatusRetry(r.status)
               THEN \* time.sleep(5), then the nested loop asks again
                    /\ retries' = retries + 1
                    /\ UNCHANGED <<pc, exc, cluster_status>>
               ELSE IF RaiseForStatus(r.status)
               THEN Abort("HTTPError") /\ UNCHANGED <<cluster_status, retries>>
               ELSE IF ~r.hasBody
               THEN Abort("BodyError") /\ UNCHANGED <<cluster_status, retries>>
               ELSE /\ cluster_status' = r.body
                    /\ pc' = IF MonitorDone(job_status)
                             THEN "sif_search"
                             ELSE "job_status"   \* time.sleep(status_poll_sleep)
                    /\ UNCHANGED <<exc, retries>>
    /\ mock' = Consumed
    /\ UNCHANGED <<jobspec, folders, file_ids, job_id, job_status, files, sif_file_id,
                   folder_id, payload, printed, polls, script_pos>>

(***************************************************************************)
(* _link_outfile_with_folder: the .sif search (lines 170-179).             *)
(***************************************************************************)
SearchSif ==
    /\ pc = "sif_search"
    /\ \E r \in Answers("sif_search", Responses(StatusCodes, SeqsUpTo(SifIds, MaxResults))) :
        LET ok == ~RaiseForStatus(r.status) /\ r.hasBody
        IN  /\ last' = Received("sif_search", r)
            /\ log' = Append(log, Entry("sif_search", job_id, <<>>,
                                        IF ok /\ SingleSif(r.body) THEN r.body[1]
                                        ELSE "raised"))
            /\ IF RaiseForStatus(r.status)
               THEN Abort("HTTPError") /\ UNCHANGED <<files, sif_file_id>>
               ELSE IF ~r.hasBody
               THEN Abort("BodyError") /\ UNCHANGED <<files, sif_file_id>>
               ELSE /\ files' = r.body
                    /\ IF ~SingleSif(r.body)
                       THEN Abort("Exception") /\ UNCHANGED sif_file_id
                       ELSE /\ sif_file_id' = r.body[1]
                            /\ pc' = "list_folders"
                            /\ UNCHANGED exc
    /\ mock' = Consumed
    /\ UNCHANGED <<jobspec, folders, file_ids, job_id, job_status, cluster_status,
                   folder_id, payload, printed, polls, retries, script_pos>>

(***************************************************************************)
(* _link_outfile_with_folder: the folder listing (lines 181-190, 204-205). *)
(***************************************************************************)
ListFolders ==
    /\ pc = "list_folders"
    /\ \E r \in Answers("list_folders", Responses(StatusCodes, SeqsUpTo(ListedFolders, MaxFolders))) :
        LET ok == ~RaiseForStatus(r.status) /\ r.hasBody
        IN  /\ last' = Received("list_folders", r)
            /\ log' = Append(log, Entry("list_folders", None, <<>>,
                                        IF ~ok THEN "raised"
                                        ELSE IF Len(ImagesFolder(r.body)) = 0 THEN "absent"
                                        ELSE ImagesFolder(r.body)[1].id))
            /\ IF RaiseForStatus(r.status)
               THEN Abort("HTTPError") /\ UNCHANGED <<folders, folder_id>>
               ELSE IF ~r.hasBody
               THEN Abort("BodyError") /\ UNCHANGED <<folders, folder_id>>
               ELSE /\ folders' = r.body
                    /\ IF Len(ImagesFolder(r.body)) = 0
                       THEN pc' = "create_folder" /\ UNCHANGED <<folder_id, exc>>
                       ELSE /\ folder_id' = ImagesFolder(r.body)[1].id
                            /\ pc' = "add_to_folder"
                            /\ UNCHANGED exc
    /\ mock' = Consumed
    /\ UNCHANGED <<jobspec, file_ids, job_id, job_status, cluster_status, files,
                   sif_file_id, payload, printed, polls, retries, script_pos>>

(***************************************************************************)
(* _link_outfile_with_folder: the folder creation (lines 191-203).         *)
(***************************************************************************)
CreateFolder ==
    /\ pc = "create_folder"
    /\ \E r \in Answers("create_folder", Responses(CreateFolderCodes, FolderIds)) :
        LET ok == ~CreateFolderRaises(r.status) /\ r.hasBody
        IN  /\ last' = Received("create_folder", r)
            /\ log' = Append(log, Entry("create_folder", None, <<images_folder_name>>,
                                        IF ok THEN r.body ELSE "raised"))
            /\ IF CreateFolderRaises(r.status)
               THEN Abort("HTTPError") /\ UNCHANGED folder_id
               ELSE IF ~r.hasBody
               THEN \* response.json()["id"] on a body without an id
                    Abort("BodyError") /\ UNCHANGED folder_id
               ELSE folder_id' = r.body /\ pc' = "add_to_folder" /\ UNCHANGED exc
    /\ mock' = Consumed
    /\ UNCHANGED <<jobspec, folders, file_ids, job_id, job_status, cluster_status, files,
                   sif_file_id, payload, printed, polls, retries, script_pos>>

(***************************************************************************)
(* _link_outfile_with_folder: file-to-folder association (lines 207-216).  *)
(***************************************************************************)
AddToFolder ==
    /\ pc = "add_to_folder"
    /\ \E r \in Answers("add_to_folder", BareResponses) :
        /\ last' = Received("add_to_folder", r)
        /\ log' = Append(log, Entry("add_to_folder", folder_id, <<sif_file_id>>,
                                    IF AssociationRaises(r.status) THEN "raised" ELSE "ok"))
        /\ IF AssociationRaises(r.status)
           THEN Abort("HTTPError")
           ELSE pc' = "type_change" /\ UNCHANGED exc
    /\ mock' = Consumed
    /\ UNCHANGED <<jobspec, folders, file_ids, job_id, job_status, cluster_status, files,
                   sif_file_id, folder_id, payload, printed, polls, retries, script_pos>>

(***************************************************************************)
(* _link_outfile_with_folder: type change of the file (lines 218-227).     *)
(***************************************************************************)
TypeChange ==
    /\ pc = "type_change"
    /\ \E r \in Answers("type_change", BareResponses) :
        /\ last' = Received("type_change", r)
        /\ log' = Append(log, Entry("type_change", None, <<sif_file_id>>,
                                    IF TypeChangeRaises(r.status) THEN "raised" ELSE "ok"))
        /\ IF TypeChangeRaises(r.status)
           THEN Abort("HTTPError")
           ELSE pc' = "log_search" /\ UNCHANGED exc
    /\ mock' = Consumed
    /\ UNCHANGED <<jobspec, folders, file_ids, job_id, job_status, cluster_status, files,
                   sif_file_id, folder_id, payload, printed, polls, retries, script_pos>>

(***************************************************************************)
(* _display_process_output: the search of the log file (lines 231-237).    *)
(***************************************************************************)
SearchProcessOutput ==
    /\ pc = "log_search"
    /\ \E r \in Answers("log_search", SearchResponses(LogFileIds)) :
        LET ok == ~RaiseForStatus(r.status) /\ r.hasBody
        IN  /\ last' = Received("log_search", r)
            /\ log' = Append(log, Entry("log_search", job_id, <<>>,
                                        IF ok THEN r.body ELSE "raised"))
            /\ IF RaiseForStatus(r.status)
               THEN Abort("HTTPError")
               ELSE IF ~r.hasBody
               THEN Abort("BodyError")
               ELSE pc' = "log_lines" /\ UNCHANGED exc
    /\ mock' = Consumed
    /\ UNCHANGED <<jobspec, folders, file_ids, job_id, job_status, cluster_status, files,
                   sif_file_id, folder_id, payload, printed, polls, retries, script_pos>>

(***************************************************************************)
(* _display_process_output: the lines of the log file (lines 239-245).     *)
(***************************************************************************)
DisplayLines ==
    /\ pc = "log_lines"
    /\ \E r \in Answers("log_lines", Responses(StatusCodes, LogBodies)) :
        LET ok == ~RaiseForStatus(r.status) /\ r.hasBody
        IN  /\ last' = Received("log_lines", r)
            /\ log' = Append(log, Entry("log_lines", log[Len(log)].ret, <<>>,
                                        IF ok THEN "ok" ELSE "raised"))
            /\ IF RaiseForStatus(r.status)
               THEN Abort("HTTPError") /\ UNCHANGED printed
               ELSE IF ~r.hasBody
               THEN Abort("BodyError") /\ UNCHANGED printed
               ELSE printed' = PrintLines(printed, r.body) /\ pc' = "done" /\ UNCHANGED exc
    /\ mock' = Consumed
    /\ UNCHANGED <<jobspec, folders, file_ids, job_id, job_status, cluster_status, files,
                   sif_file_id, folder_id, payload, polls, retries, script_pos>>

Next ==
    \/ UploadFile
    \/ CreateBuildJob
    \/ SubmitBuildJob
    \/ MonitorJobStatus
    \/ MonitorClusterStatus
    \/ SearchSif
    \/ ListFolders
    \/ CreateFolder
    \/ AddToFolder
    \/ TypeChange
    \/ SearchProcessOutput
    \/ DisplayLines

Spec == Init /\ [][Next]_vars

\* the mocked runs
SpecMock == InitMock /\ [][Next]_vars

(***************************************************************************)
(* Reading the history.                                                    *)
(***************************************************************************)
Indexes(kind) == {i \in 1..Len(log) : log[i].kind = kind}
Issued(kind) == Indexes(kind) # {}
Count(kind) == Cardinality(Indexes(kind))

MonitorKinds == {"job_status", "cluster_status"}
FilingKinds == {"sif_search", "list_folders", "create_folder", "add_to_folder",
                "type_change"}
FolderKinds == FilingKinds \ {"sif_search"}
OutputKinds == {"log_search", "log_lines"}

\* _monitor_job has returned to _build_image
MonitorReturned == pc = "sif_search" \/ Issued("sif_search")

\* the call that got the latest response returned without raising
LastReturned(kind) == last.kind = kind /\ last.status < 400

(***************************************************************************)
(* C1: the remote calls occur in the pipeline order, each stage starting   *)
(* only after the previous one returned without raising: build script      *)
(* upload, definition file upload, job creation, submit, job-status poll,  *)
(* then (only after a poll read "Completed") the .sif search and the       *)
(* folder, association and type-change calls, then (only after the         *)
(* type change returned) the process-output requests.                      *)
(***************************************************************************)
C1_PipelineOrder ==
    /\ \A i \in 1..Len(log) :
        LET k == log[i].kind
            before == IF i = 1 THEN Entry(None, None, <<>>, None) ELSE log[i - 1]
        IN  /\ i > 1 => before.ret # "raised"
            /\ k = "upload" =>
                 /\ i <= 2
                 /\ log[i].ids = <<Basename(IF i = 1 THEN jobspec.buildscript_path
                                                     ELSE jobspec.deffile_path)>>
            /\ k = "create_job" =>
                 i = 3 /\ log[1].kind = "upload" /\ log[2].kind = "upload"
            /\ k = "submit" => before.kind = "create_job"
            /\ k = "job_status" =>
                 \/ before.kind = "submit"
                 \/ before.kind = "cluster_status" /\ before.ret = "ok"
            /\ k = "cluster_status" =>
                 \/ before.kind = "job_status"
                 \/ before.kind = "cluster_status" /\ before.ret = "retry"
            /\ k = "sif_search" =>
                 /\ before.kind = "cluster_status" /\ before.ret = "ok"
                 /\ job_status = "Completed"
            /\ k = "list_folders" => before.kind = "sif_search"
            /\ k = "create_folder" => before.kind = "list_folders"
            /\ k = "add_to_folder" => before.kind \in {"list_folders", "create_folder"}
            /\ k = "type_change" => before.kind = "add_to_folder"
            /\ k = "log_search" => before.kind = "type_change"
            /\ k = "log_lines" => before.kind = "log_search"
    /\ pc = "create_job" => LastReturned("upload") /\ Count("upload") = 2
    /\ pc = "submit" => LastReturned("create_job")
    /\ Count("job_status") = 0 /\ pc = "job_status" => LastReturned("submit")
    /\ pc = "sif_search" => LastReturned("cluster_status") /\ job_status = "Completed"
    /\ pc = "log_search" => LastReturned("type_change")

\* a run that went through every stage, with two iterations of the monitor
C1_Witness == pc = "done" /\ Count("job_status") = 2 /\ Issued("create_folder")

(***************************************************************************)
(* C2: the tolerated error responses.                                      *)
(***************************************************************************)
Tolerated(kind, status) ==
    \/ kind = "cluster_status" /\ status = 404
    \/ kind = "create_folder" /\ status = 400

(***************************************************************************)
(* C2 as stated: every response that is not 2xx, other than a 404 on       *)
(* cluster status and a 400 on folder creation, raises and ends the run,   *)
(* and no request follows an aborted call.                                 *)
(***************************************************************************)
C2_Non2xxAborts ==
    [][/\ pc # "aborted"
       /\ (~Is2xx(last'.status) /\ ~Tolerated(last'.kind, last'.status))
            => pc' = "aborted"]_vars

(***************************************************************************)
(* C2 amended: every 4xx or 5xx response, other than a 404 on cluster      *)
(* status and a 400 on folder creation, raises at once and ends the run:   *)
(* no request is issued after it and the failed call is not retried.       *)
(***************************************************************************)
C2_ErrorStatusAborts ==
    [][/\ pc # "aborted"
       /\ Len(log') = Len(log) + 1
       /\ (last'.status >= 400 /\ ~Tolerated(last'.kind, last'.status))
            => (pc' = "aborted" /\ exc' = "HTTPError")]_vars

\* the type change answered 500 and the run ended there
C2_Witness ==
    /\ pc = "aborted" /\ exc = "HTTPError"
    /\ last.kind = "type_change" /\ last.status = 500
    /\ log[Len(log)].kind = "type_change"

(***************************************************************************)
(* C3: while the job statuses read follow the script Submitted, Running,   *)
(* Completed, the monitor has issued exactly one job-status poll per       *)
(* iteration, it has not returned before "Completed" was read, it returns  *)
(* in the iteration that read "Completed" (the third), and it issues no    *)
(* job-status poll after that.                                             *)
(***************************************************************************)
OkClusterAnswers == Cardinality({i \in Indexes("cluster_status") : log[i].ret = "ok"})

C3_ScriptedMonitor ==
    script_pos # OffScript =>
        /\ Count("job_status") = script_pos
        /\ polls = script_pos
        /\ Count("job_status") \in {OkClusterAnswers, OkClusterAnswers + 1}
        /\ MonitorReturned <=> (script_pos = Len(Script) /\ OkClusterAnswers = Len(Script))
        /\ script_pos = Len(Script) => pc # "job_status"

C3_Witness ==
    /\ script_pos = Len(Script) /\ pc = "sif_search"
    /\ Count("job_status") = 3 /\ OkClusterAnswers = 3

(***************************************************************************)
(* C4: the monitor returns only in an iteration whose job-status poll read *)
(* "Completed".  An iteration that read any other status and whose polls   *)
(* answered 2xx neither returns nor raises: it goes on to the next poll.   *)
(* Hence no filing or log request is issued unless "Completed" was read.   *)
(***************************************************************************)
C4_OnlyCompletedReturns ==
    /\ [](MonitorReturned => job_status = "Completed")
    /\ [](job_status # "Completed" =>
            \A i \in 1..Len(log) : log[i].kind \notin FilingKinds \cup OutputKinds)
    /\ [][(pc \in MonitorKinds /\ Is2xx(last'.status)) =>
            /\ exc' = None
            /\ job_status' # "Completed" => pc' \in MonitorKinds
            /\ (pc = "cluster_status" /\ job_status' # "Completed")
                 => pc' = "job_status"]_vars

\* the job failed, and the monitor is about to poll for the third time
C4_Witness ==
    /\ job_status = "Failed" /\ pc = "job_status" /\ exc = None
    /\ Count("job_status") = 2 /\ OkClusterAnswers = 2

(***************************************************************************)
(* C5: a 404 from the cluster-status endpoint is not an error: the nested  *)
(* loop issues the cluster-status request again, and the 200 that follows  *)
(* one or more 404s lets the iteration proceed with that response.         *)
(***************************************************************************)
C5_ClusterStatusRetried ==
    /\ [][(pc = "cluster_status" /\ last'.status = 404) =>
            /\ pc' = "cluster_status" /\ exc' = None
            /\ UNCHANGED <<job_status, cluster_status, polls>>]_vars
    /\ [][(pc = "cluster_status" /\ last.kind = "cluster_status" /\ last.status = 404
              /\ last'.status = 200) =>
            /\ exc' = None
            /\ cluster_status' \in ClusterStatuses
            /\ pc' = IF job_status = "Completed" THEN "sif_search" ELSE "job_status"]_vars
    /\ [](\A i \in Indexes("cluster_status") :
            (log[i].ret = "retry" /\ i < Len(log)) => log[i + 1].kind = "cluster_status")

\* two 404s, then a 200, and the monitor went on
C5_Witness ==
    \E i \in 1..Len(log) :
        /\ i + 2 <= Len(log)
        /\ log[i].kind = "cluster_status" /\ log[i].ret = "retry"
        /\ log[i + 1].kind = "cluster_status" /\ log[i + 1].ret = "retry"
        /\ log[i + 2].kind = "cluster_status" /\ log[i + 2].ret = "ok"
        /\ exc = None

(***************************************************************************)
(* C6: when the .sif search lists no result, or two or more, the run ends  *)
(* there with the bare Exception: no folder listing, folder creation,      *)
(* association or type-change request is issued.                           *)
(***************************************************************************)
C6_SifCountChecked ==
    /\ (last.kind = "sif_search" /\ last.status < 400 /\ last.hasBody /\ Len(files) # 1)
         => (pc = "aborted" /\ exc = "Exception")
    /\ Len(files) # 1 =>
         /\ pc \notin FolderKinds
         /\ \A i \in 1..Len(log) : log[i].kind \notin FolderKinds \cup OutputKinds

\* the search listed two .sif files
C6_Witness ==
    /\ last.kind = "sif_search" /\ Len(files) = 2
    /\ pc = "aborted" /\ exc = "Exception"
    /\ log[Len(log)].kind = "sif_search"

(***************************************************************************)
(* C7: with exactly one .sif file found, filing goes folder listing (and   *)
(* creation when needed), then association, then type change: the          *)
(* association is issued only once a folder id was obtained and names that *)
(* folder, the type change only after the association returned, both carry *)
(* the id of the one file found, and no step whose call answered 2xx ends  *)
(* the run.                                                                *)
(***************************************************************************)
C7_FilingOrder ==
    /\ [](\A i \in Indexes("add_to_folder") :
            /\ Len(files) = 1 /\ log[i].ids = <<files[1]>>
            /\ folder_id \in FolderIds /\ log[i].target = folder_id
            /\ log[i - 1].kind \in {"list_folders", "create_folder"}
            /\ log[i - 1].ret = folder_id)
    /\ [](\A i \in Indexes("type_change") :
            /\ log[i].ids = <<files[1]>>
            /\ log[i - 1].kind = "add_to_folder" /\ log[i - 1].ret = "ok")
    /\ [](pc = "add_to_folder" => folder_id \in FolderIds)
    /\ [](pc = "type_change" => LastReturned("add_to_folder"))
    /\ [](pc = "log_search" =>
            /\ Count("list_folders") = 1 /\ Count("add_to_folder") = 1
            /\ Count("type_change") = 1 /\ Count("create_folder") <= 1
            /\ log[Len(log)].kind = "type_change")
    /\ [][(pc \in FolderKinds /\ Is2xx(last'.status)) =>
            /\ exc' = None
            /\ pc = "add_to_folder" => pc' = "type_change"
            /\ pc = "type_change" => pc' = "log_search"
            /\ pc \in {"list_folders", "create_folder"}
                 => pc' \in {"create_folder", "add_to_folder"}]_vars

\* filing completed, through the creation of the folder
C7_Witness ==
    /\ pc = "log_search" /\ Issued("create_folder")
    /\ Len(files) = 1 /\ log[Len(log)].ids = <<sif_file_id>>

(***************************************************************************)
(* C8 as stated: a 201 and a 400 answer to the folder creation both give a *)
(* usable folder id, which the association request that follows uses.      *)
(***************************************************************************)
C8_FolderIdFrom201And400 ==
    (last.kind = "create_folder" /\ last.status \in {201, 400})
        => (pc = "add_to_folder" /\ folder_id \in FolderIds)

(***************************************************************************)
(* C9 as stated: any answer to the folder creation other than 201 and 400  *)
(* ends the run: no folder id is taken from it and no association or       *)
(* type-change request is issued.                                          *)
(***************************************************************************)
C9_OtherStatusAborts ==
    (last.kind = "create_folder" /\ last.status \notin {201, 400})
        => (pc = "aborted" /\ folder_id = None /\ ~Issued("add_to_folder"))

(***************************************************************************)
(* C10: the job-creation payload has exactly one job-analysis entry, whose *)
(* inputFiles has the length and the order of the file ids supplied; in a  *)
(* run these are the id returned by the upload of the build script, then   *)
(* the id returned by the upload of the definition file.                   *)
(***************************************************************************)
C10_PayloadInputFiles ==
    Issued("create_job") =>
        LET analyses == payload.jobanalyses
        IN  /\ Len(analyses) = 1
            /\ Len(analyses[1].inputFiles) = Len(file_ids)
            /\ \A i \in 1..Len(file_ids) : analyses[1].inputFiles[i] = [id |-> file_ids[i]]
            /\ log[1].kind = "upload" /\ log[1].ids = <<Basename(jobspec.buildscript_path)>>
            /\ log[2].kind = "upload" /\ log[2].ids = <<Basename(jobspec.deffile_path)>>
            /\ file_ids = <<log[1].ret, log[2].ret>>
            /\ log[3].kind = "create_job" /\ log[3].ids = <<log[1].ret, log[2].ret>>

\* the job was created from two uploads that returned different ids
C10_Witness ==
    /\ Issued("create_job") /\ pc = "submit"
    /\ file_ids = <<"f2", "f1">>

Matches == {j \in 1..Len(folders) : folders[j].name = "apptainer_images"}
FirstMatch == CHOOSE j \in Matches : \A k \in Matches : j <= k
\* the listing was answered and read
ListingRead == \E i \in Indexes("list_folders") : log[i].ret # "raised"

C13_LookupBeforeCreate ==
    /\ \A i \in Indexes("create_folder") :
        log[i - 1].kind = "list_folders" /\ Matches = {}
    /\ (ListingRead /\ Matches = {}) => (pc = "create_folder" \/ Issued("create_folder"))
    /\ (ListingRead /\ Matches # {}) =>
         /\ pc # "create_folder" /\ ~Issued("create_folder")
         /\ folder_id = folders[FirstMatch].id
         /\ \A i \in Indexes("add_to_folder") : log[i].target = folders[FirstMatch].id
         /\ last.kind = "list_folders" => pc = "add_to_folder"

\* two folders bear the name: the association went to the first one listed
C13_Witness ==
    /\ Len(folders) = 2 /\ folders[1].name = "apptainer_images" /\ folders[1].id = "d2"
    /\ folders[2].name = "apptainer_images" /\ folders[2].id = "d1"
    /\ Issued("add_to_folder") /\ ~Issued("create_folder")
    /\ log[Len(log)].target = "d2"

C15_CompletionAfterClusterStatus ==
    /\ [][(pc = "cluster_status" /\ job_status = "Completed" /\ last'.status = 404) =>
            /\ pc' = "cluster_status" /\ exc' = None
            /\ polls' = polls /\ job_status' = "Completed"
            /\ log'[Len(log')].kind = "cluster_status"
            /\ ~Issued("sif_search")']_vars
    /\ [][(pc = "cluster_status" /\ job_status = "Completed" /\ Is2xx(last'.status)) =>
            (pc' = "sif_search" /\ polls' = polls /\ exc' = None)]_vars
    /\ [](pc = "sif_search" => (last.kind = "cluster_status" /\ last.status # 404))
    /\ [](\A i \in Indexes("job_status") :
            (i > 1 /\ log[i - 1].kind = "cluster_status") => log[i - 1].ret = "ok")

\* "Completed" was read and the cluster-status endpoint has answered 404 twice
C15_Witness ==
    /\ pc = "cluster_status" /\ job_status = "Completed"
    /\ last.kind = "cluster_status" /\ last.status = 404
    /\ Len(log) >= 3 /\ log[Len(log) - 1].ret = "retry"
    /\ log[Len(log) - 2].kind = "job_status"

(***************************************************************************)
(* C16: the build log is requested and printed only after the filing       *)
(* succeeded: when the .sif search does not list exactly one file, or a    *)
(* folder, association or type-change call ends the run, no process-output *)
(* search and no file-lines request is issued and nothing is printed.      *)
(***************************************************************************)
OutputStarted ==
    \/ pc \in OutputKinds
    \/ printed # <<>>
    \/ \E i \in 1..Len(log) : log[i].kind \in OutputKinds

C16_LogOnlyAfterFiling ==
    /\ [](OutputStarted =>
            /\ Len(files) = 1
            /\ Count("list_folders") = 1 /\ Count("add_to_folder") = 1
            /\ Count("type_change") = 1
            /\ \A i \in Indexes("type_change") : \A j \in 1..Len(log) :
                  log[j].kind \in OutputKinds => i < j)
    /\ [](pc = "log_search" => LastReturned("type_change"))
    /\ []((exc # None /\ last.kind \in FilingKinds) => ~OutputStarted)
    /\ [][(pc \in FilingKinds /\ last'.status >= 400
              /\ ~Tolerated(last'.kind, last'.status)) =>
            (pc' = "aborted" /\ ~OutputStarted')]_vars
    /\ [][(pc = "sif_search" /\ Len(files') # 1) => (pc' = "aborted" /\ ~OutputStarted')]_vars

\* the search listed no .sif file: the run ended and nothing was printed
C16_Witness ==
    /\ last.kind = "sif_search" /\ Is2xx(last.status) /\ Len(files) = 0
    /\ pc = "aborted" /\ exc = "Exception" /\ printed = <<>>

(***************************************************************************)
(* C17: whatever the server answers, at most two upload POSTs, one         *)
(* job-creation POST, one submit POST, one association POST and one        *)
(* type-change POST are issued; the only requests issued more than once    *)
(* are the job-status and cluster-status GETs of the monitor.              *)
(***************************************************************************)
C17_NoRepeatedWrites ==
    /\ Count("upload") <= 2
    /\ \A k \in {"create_job", "submit", "add_to_folder", "type_change", "sif_search",
                 "list_folders", "create_folder", "log_search", "log_lines"} :
          Count(k) <= 1

\* a complete run in which the monitor polled twice and waited out two 404s
C17_Witness ==
    /\ pc = "done" /\ Count("upload") = 2 /\ Count("type_change") = 1
    /\ Count("job_status") = 2 /\ Count("cluster_status") = 4

(***************************************************************************)
(* C12 as stated: the mocked run given two uploads, job create, submit,    *)
(* one status poll "Completed", one sif match, folder create 201,          *)
(* associate 200, retag 200 and the log line "build ok\n", consumed in     *)
(* order by the requests, raises no exception and ends with `build ok`     *)
(* printed.                                                                *)
(***************************************************************************)
C12_ClaimedRunPrintsBuildOk ==
    mock.script = ClaimedScenario =>
        /\ exc = None
        /\ mock.pos = Len(mock.script) => (pc = "done" /\ printed = <<"build ok\n">>)

(***************************************************************************)
(* C12 amended: the mocked run given two uploads, job create, submit, one  *)
(* status poll "Completed", one cluster status, one sif match, a folder    *)
(* listing without the images folder, folder create 201, associate 200,    *)
(* retag 200, one log-file match and the log line "build ok\n", consumed   *)
(* in order by the requests, raises no exception, stops only when all were *)
(* consumed, and ends with `build ok` printed.                             *)
(***************************************************************************)
C12_CompleteRunPrintsBuildOk ==
    mock.script = CompleteScenario =>
        /\ exc = None /\ pc # "aborted"
        /\ Len(log) = mock.pos
        /\ pc = "done" <=> mock.pos = Len(mock.script)
        /\ pc = "done" => printed = <<"build ok\n">>
        /\ pc # "done" => ENABLED Next

C12_Witness ==
    /\ mock.on /\ mock.script = CompleteScenario /\ mock.pos = Len(mock.script)
    /\ pc = "done" /\ exc = None /\ printed = <<"build ok\n">>
====
